---- MODULE Spec2Model ----
(***************************************************************************)
(* Wire Payment Unusual Transaction Report (src/Wire_Transfer_GUI.py).     *)
(*                                                                         *)
(* One run of the Streamlit script: load_data() reads three SWIFT          *)
(* transaction files and the KYC limit file, concatenates, corrects the    *)
(* limit column, left-joins on 'Customer ID' and keeps the rows whose      *)
(* amount exceeds the limit; the top level converts the dates, builds the  *)
(* customer selectbox and renders three tabs.                              *)
(*                                                                         *)
(* A DataFrame is [cols |-> set of column names, rows |-> sequence of      *)
(* records]; a cell of a column the frame does not have is null.           *)
(* Numeric cells are naturals, NaN is the null of a numeric column and     *)
(* NonNumeric a cell pandas keeps as a str (object dtype).  Text cells     *)
(* are strings and NA is their null.                                       *)
(***************************************************************************)
EXTENDS Integers, Sequences, FiniteSets, TLC

VARIABLES files, pc, WT_KYC_2, merge_tables, unusual_wp_increase,
          customer_names, selected_customer, filtered_data, ui

vars == <<files, pc, WT_KYC_2, merge_tables, unusual_wp_increase,
          customer_names, selected_customer, filtered_data, ui>>

-----------------------------------------------------------------------------
(* Cell values *)

NaN == -1
NonNumeric == -2
NA == "<NA>"
NaT == "NaT"

\* column names
ColId == "Customer ID"
ColName == "Customer Name"
ColNameX == "Customer Name_x"
ColNameY == "Customer Name_y"
ColLimit == "Wire Transfer Limit"
ColDate == "Date of Transaction"
ColAmount == "Outgoing Wire Transfer Amount"

\* the four input files, in the order load_data reads them
FileNames == <<"SWIFT_csv_20250924_a62566.txt", "SWIFT_csv_2.txt", "SWIFT_csv_3.txt",
               "Wire Transfer KYC.txt">>

SwiftCols == {ColId, ColDate, ColAmount, ColName}
KycCols == {ColId, ColName, ColLimit}

NoFrame == [cols |-> {}, rows |-> <<>>]

ToSet(s) == {s[i] : i \in 1..Len(s)}

RECURSIVE SumOf(_, _)
SumOf(s, col) == IF s = <<>> THEN 0 ELSE s[1][col] + SumOf(Tail(s), col)

-----------------------------------------------------------------------------
(* Bounded inputs *)

\* size budget of one input set: transaction rows plus defects
MaxTxns == 2
\* defects (unreadable file, absent column, bad cell) in one input set
MaxDefects == 1

Sentinel == 500
Increase == 5000000

KycCustomerIDs == {1, 2}
SwiftCustomerIDs == {1, 2, 3}
NoId == 0
Limits == {Sentinel, 10000}
Amounts == {10000, 5000000, 6000000}
GoodDate == "2025-09-24"
BadDate == "24th of Sept"

\* display name of a customer as the KYC file and as the SWIFT messages spell it
KycName(cid) == IF cid = 1 THEN "Acme Ltd" ELSE "Bolt Inc"
SwiftName(cid) ==
    IF cid = 1 THEN "Acme Ltd" ELSE IF cid = 2 THEN "BOLT INCORPORATED" ELSE "Cyan LLC"

\* limit batches: customer identifiers unique
KycBatches ==
    {k \in UNION {[1..n -> [cid : KycCustomerIDs, limit : Limits]] :
                    n \in 0..Cardinality(KycCustomerIDs)} :
        \A i, j \in 1..Len(k) : i # j => k[i].cid # k[j].cid}

\* transactions of the three batches, listed batch by batch
TxnLists(n) ==
    {t \in UNION {[1..m -> [batch : 1..3, cid : SwiftCustomerIDs, amount : Amounts]] :
                    m \in 0..n} :
        \A i \in 1..(Len(t) - 1) : t[i].batch <= t[i + 1].batch}

Defect(k, f, c, r) == [kind |-> k, file |-> f, col |-> c, row |-> r]

\* The name column of the transaction files is optional (file 0 stands for the
\* three transaction files together); every other column is required.
Defects(kyc, txns) ==
    {Defect(k, f, "", 0) : k \in {"missing", "malformed"}, f \in 1..4}
    \cup {Defect("nocolumn", f, c, 0) : f \in 1..3, c \in SwiftCols \ {ColName}}
    \cup {Defect("nocolumn", 0, ColName, 0)}
    \cup {Defect("nocolumn", 4, c, 0) : c \in KycCols}
    \cup {Defect(k, 0, "", i) : k \in {"baddate", "badamount"}, i \in 1..Len(txns)}
    \cup {Defect("badlimit", 0, "", j) : j \in 1..Len(kyc)}

RECURSIVE SubsetsUpTo(_, _)
SubsetsUpTo(S, n) ==
    IF n = 0 THEN {{}}
    ELSE LET prev == SubsetsUpTo(S, n - 1)
         IN  prev \cup {p \cup {x} : p \in prev, x \in S}

FileStatus(f, ds) ==
    IF Defect("missing", f, "", 0) \in ds THEN "missing"
    ELSE IF Defect("malformed", f, "", 0) \in ds THEN "malformed"
    ELSE "ok"

FileCols(f, ds) ==
    {c \in (IF f = 4 THEN KycCols ELSE SwiftCols) :
        /\ Defect("nocolumn", f, c, 0) \notin ds
        /\ f # 4 => Defect("nocolumn", 0, c, 0) \notin ds}

SwiftRow(t, i, cols, ds) ==
    [cid    |-> IF ColId \in cols THEN t.cid ELSE NoId,
     date   |-> IF ColDate \notin cols THEN NA
                ELSE IF Defect("baddate", 0, "", i) \in ds THEN BadDate ELSE GoodDate,
     amount |-> IF ColAmount \notin cols THEN NaN
                ELSE IF Defect("badamount", 0, "", i) \in ds THEN NonNumeric ELSE t.amount,
     name   |-> IF ColName \in cols THEN SwiftName(t.cid) ELSE NA]

KycRow(k, j, cols, ds) ==
    [cid   |-> IF ColId \in cols THEN k.cid ELSE NoId,
     name  |-> IF ColName \in cols THEN KycName(k.cid) ELSE NA,
     limit |-> IF ColLimit \notin cols THEN NaN
               ELSE IF Defect("badlimit", 0, "", j) \in ds THEN NonNumeric ELSE k.limit]

RECURSIVE SwiftRows(_, _, _, _, _)
SwiftRows(txns, i, f, cols, ds) ==
    IF i > Len(txns) THEN <<>>
    ELSE IF txns[i].batch = f
         THEN <<SwiftRow(txns[i], i, cols, ds)>> \o SwiftRows(txns, i + 1, f, cols, ds)
         ELSE SwiftRows(txns, i + 1, f, cols, ds)

MakeFile(f, kyc, txns, ds) ==
    LET st == FileStatus(f, ds)
        cols == FileCols(f, ds)
    IN  IF st # "ok" THEN [status |-> st, cols |-> {}, rows |-> <<>>]
        ELSE [status |-> st, cols |-> cols,
              rows |-> IF f = 4 THEN [j \in 1..Len(kyc) |-> KycRow(kyc[j], j, cols, ds)]
                       ELSE SwiftRows(txns, 1, f, cols, ds)]

\* defects an input set with these transactions may still carry
DefectBudget(txns) ==
    IF MaxTxns - Len(txns) < MaxDefects THEN MaxTxns - Len(txns) ELSE MaxDefects

-----------------------------------------------------------------------------
(* pandas operations used by load_data; a result is [exc, df], exc = "" when *)
(* the call returns                                                          *)

Return(df) == [exc |-> "", df |-> df]
Raise(e) == [exc |-> e, df |-> NoFrame]

\* read_csv infers one dtype per column: a column with a non-numeric cell is
\* read as object and every non-null cell of it is a str
InferColumn(rows, col) ==
    IF \E i \in 1..Len(rows) : rows[i][col] = NonNumeric
    THEN [i \in 1..Len(rows) |->
            IF rows[i][col] = NaN THEN rows[i] ELSE [rows[i] EXCEPT ![col] = NonNumeric]]
    ELSE rows

read_csv(file, numcol) ==
    IF file.status = "missing" THEN Raise("FileNotFoundError")
    ELSE IF file.status = "malformed" THEN Raise("ParserError")
    ELSE Return([cols |-> file.cols, rows |-> InferColumn(file.rows, numcol)])

\* pd.concat([a, b], ignore_index=True): union of the columns, rows of a then b
concat(a, b) == [cols |-> a.cols \cup b.cols, rows |-> a.rows \o b.rows]

\* variant: the second concat takes SWIFT_2 again and the third batch is lost
SWIFT_MERGE_Without3(SWIFT, SWIFT_2, SWIFT_3) == concat(concat(SWIFT, SWIFT_2), SWIFT_2)

SWIFT_MERGE(SWIFT, SWIFT_2, SWIFT_3) == concat(concat(SWIFT, SWIFT_2), SWIFT_3)

\* variants of the correction: none at all; a range test instead of the exact match
CorrectLimitNever(limit) == limit
CorrectLimitFrom(limit) == IF limit >= Sentinel THEN limit + Increase ELSE limit

\* np.where(limit == 500, limit + 5000000.00, limit) on one cell
CorrectLimit(limit) == IF limit = Sentinel THEN limit + Increase ELSE limit

\* lines 37-42: the '+' is evaluated on the whole column, a str cell raises
CorrectLimits(WT_KYC) ==
    IF ColLimit \notin WT_KYC.cols THEN Raise("KeyError")
    ELSE IF \E i \in 1..Len(WT_KYC.rows) : WT_KYC.rows[i].limit = NonNumeric
    THEN Raise("TypeError")
    ELSE Return([cols |-> WT_KYC.cols,
                 rows |-> [i \in 1..Len(WT_KYC.rows) |->
                             [WT_KYC.rows[i] EXCEPT !.limit = CorrectLimit(@)]]])

Joined(l, r) ==
    [cid |-> l.cid, name_x |-> l.name, limit |-> l.limit,
     date |-> r.date, amount |-> r.amount, name_y |-> r.name]

NoMatch == [cid |-> NoId, date |-> NA, amount |-> NaN, name |-> NA]

RowsOf(cid, rows) == SelectSeq(rows, LAMBDA r : r.cid = cid)

\* variant: how='inner', a left row nothing matches is dropped
RECURSIVE MergeRowsInner(_, _)
MergeRowsInner(left, right) ==
    IF left = <<>> THEN <<>>
    ELSE LET l == Head(left)
             m == RowsOf(l.cid, right)
         IN  [i \in 1..Len(m) |-> Joined(l, m[i])] \o MergeRowsInner(Tail(left), right)

\* rows of a left join: each left row once per matching right row, in order,
\* or once with null right cells when nothing matches
RECURSIVE MergeRows(_, _)
MergeRows(left, right) ==
    IF left = <<>> THEN <<>>
    ELSE LET l == Head(left)
             m == RowsOf(l.cid, right)
         IN  (IF m = <<>> THEN <<Joined(l, NoMatch)>>
              ELSE [i \in 1..Len(m) |-> Joined(l, m[i])])
             \o MergeRows(Tail(left), right)

\* columns both frames have besides the key get the suffixes _x and _y
MergeCols(left, right) ==
    LET both == (left.cols \cap right.cols) \ {ColId}
        Suffix(c, s) == IF c = ColName THEN (IF s = "x" THEN ColNameX ELSE ColNameY) ELSE c
    IN  {ColId}
        \cup {IF c \in both THEN Suffix(c, "x") ELSE c : c \in left.cols}
        \cup {IF c \in both THEN Suffix(c, "y") ELSE c : c \in right.cols}

\* pd.merge(left, right, on='Customer ID', how='left')
merge(left, right) ==
    IF ColId \notin left.cols \/ ColId \notin right.cols THEN Raise("KeyError")
    ELSE Return([cols |-> MergeCols(left, right), rows |-> MergeRows(left.rows, right.rows)])

\* variant: >= instead of >
ExceedsOrEquals(amount, limit) == amount # NaN /\ limit # NaN /\ amount >= limit

\* amount > limit on one row: a comparison with NaN is False
Exceeds(amount, limit) == amount # NaN /\ limit # NaN /\ amount > limit

\* line 48: the boolean mask; comparing a str cell with a number raises
FilterExceeding(m) ==
    IF ColAmount \notin m.cols \/ ColLimit \notin m.cols THEN Raise("KeyError")
    ELSE IF \E i \in 1..Len(m.rows) :
              /\ NonNumeric \in {m.rows[i].amount, m.rows[i].limit}
              /\ NaN \notin {m.rows[i].amount, m.rows[i].limit}
    THEN Raise("TypeError")
    ELSE Return([cols |-> m.cols,
                 rows |-> SelectSeq(m.rows, LAMBDA r : Exceeds(r.amount, r.limit))])

Failed(e) == [exc |-> e, WT_KYC_2 |-> NoFrame, merge_tables |-> NoFrame, result |-> NoFrame]

\* load_data(), lines 22-50; the first call that raises ends it
load_data(fs) ==
    LET SWIFT == read_csv(fs[1], "amount")
        SWIFT_2 == read_csv(fs[2], "amount")
        SWIFT_3 == read_csv(fs[3], "amount")
        WT_KYC == read_csv(fs[4], "limit")
        kyc2 == CorrectLimits(WT_KYC.df)
        merged == merge(kyc2.df, SWIFT_MERGE(SWIFT.df, SWIFT_2.df, SWIFT_3.df))
        flagged == FilterExceeding(merged.df)
    IN  IF SWIFT.exc # "" THEN Failed(SWIFT.exc)
        ELSE IF SWIFT_2.exc # "" THEN Failed(SWIFT_2.exc)
        ELSE IF SWIFT_3.exc # "" THEN Failed(SWIFT_3.exc)
        ELSE IF WT_KYC.exc # "" THEN Failed(WT_KYC.exc)
        ELSE IF kyc2.exc # "" THEN Failed(kyc2.exc)
        ELSE IF merged.exc # "" THEN Failed(merged.exc)
        ELSE IF flagged.exc # "" THEN Failed(flagged.exc)
        ELSE [exc |-> "", WT_KYC_2 |-> kyc2.df, merge_tables |-> merged.df,
              result |-> flagged.df]

\* a Timestamp is written as its ISO text with the time of day
ParseDate(text) == IF text = NA THEN NaT ELSE "2025-09-24 00:00:00"
Parseable(text) == text \in {NA, GoodDate}

\* line 57: pd.to_datetime over the date column of the frame it is given
to_datetime(df) ==
    IF ColDate \notin df.cols THEN Raise("KeyError")
    ELSE IF \E i \in 1..Len(df.rows) : ~Parseable(df.rows[i].date) THEN Raise("ValueError")
    ELSE Return([cols |-> df.cols,
                 rows |-> [i \in 1..Len(df.rows) |->
                             [df.rows[i] EXCEPT !.date = ParseDate(@)]]])

-----------------------------------------------------------------------------
(* The script, top to bottom *)

El(kind, data) == [el |-> kind, data |-> data]

Init ==
    /\ \E kyc \in KycBatches, txns \in TxnLists(MaxTxns) :
          \E ds \in SubsetsUpTo(Defects(kyc, txns), DefectBudget(txns)) :
             files = [f \in 1..4 |-> MakeFile(f, kyc, txns, ds)]
    /\ pc = "start"
    /\ WT_KYC_2 = NoFrame
    /\ merge_tables = NoFrame
    /\ unusual_wp_increase = NoFrame
    /\ customer_names = {}
    /\ selected_customer = ""
    /\ filtered_data = NoFrame
    /\ ui = {}

\* except Exception: st.error(...); st.stop()
HandleError(e) ==
    /\ ui' = ui \cup {El("load_error:" \o e, <<>>)}
    /\ pc' = "stopped"

\* line 54: unusual_wp_increase = load_data(), inside the try
LoadData ==
    /\ pc = "start"
    /\ LET r == load_data(files)
       IN  IF r.exc # ""
           THEN /\ HandleError(r.exc)
                /\ UNCHANGED <<WT_KYC_2, merge_tables, unusual_wp_increase>>
           ELSE /\ WT_KYC_2' = r.WT_KYC_2
                /\ merge_tables' = r.merge_tables
                /\ unusual_wp_increase' = r.result
                /\ pc' = "fetched"
                /\ ui' = ui
    /\ UNCHANGED <<files, customer_names, selected_customer, filtered_data>>

\* line 57, inside the same try
ConvertDates ==
    /\ pc = "fetched"
    /\ LET r == to_datetime(unusual_wp_increase)
       IN  IF r.exc # ""
           THEN /\ HandleError(r.exc)
                /\ UNCHANGED unusual_wp_increase
           ELSE /\ unusual_wp_increase' = r.df
                /\ pc' = "loaded"
                /\ ui' = ui
    /\ UNCHANGED <<files, WT_KYC_2, merge_tables, customer_names, selected_customer,
                   filtered_data>>

\* unusual_wp_increase['Customer Name_y'].dropna().unique()
FlaggedNames(df) == {df.rows[i].name_y : i \in 1..Len(df.rows)} \ {NA}

\* lines 64-78: title, filter header and the selectbox; indexing a column the
\* frame does not have raises KeyError outside any try
SelectCustomer ==
    /\ pc = "loaded"
    /\ IF ColNameY \notin unusual_wp_increase.cols
       THEN /\ ui' = ui \cup {El("title", <<>>), El("filters_header", <<>>),
                              El("uncaught:KeyError", <<>>)}
            /\ pc' = "crashed"
            /\ UNCHANGED <<customer_names, selected_customer>>
       ELSE /\ customer_names' = {"All"} \cup FlaggedNames(unusual_wp_increase)
            /\ selected_customer' \in customer_names'
            /\ ui' = ui \cup {El("title", <<>>), El("filters_header", <<>>),
                              El("selectbox", <<>>)}
            /\ pc' = "selected"
    /\ UNCHANGED <<files, WT_KYC_2, merge_tables, unusual_wp_increase, filtered_data>>

\* lines 83-91
FilterData ==
    /\ pc = "selected"
    /\ filtered_data' =
          IF selected_customer # "All"
          THEN [cols |-> unusual_wp_increase.cols,
                rows |-> SelectSeq(unusual_wp_increase.rows,
                                   LAMBDA r : r.name_y = selected_customer)]
          ELSE unusual_wp_increase
    /\ ui' = ui \cup {El("tabs", <<>>)}
    /\ pc' = "tab1"
    /\ UNCHANGED <<files, WT_KYC_2, merge_tables, unusual_wp_increase, customer_names,
                   selected_customer>>

\* variant: the test for 'All' left out of the chart condition
ChartWheneverData(tab, values) ==
    IF filtered_data.rows # <<>>
    THEN El(tab \o "_chart", values)
    ELSE IF selected_customer = "All" THEN El(tab \o "_select_customer", <<>>)
    ELSE El(tab \o "_no_data", <<>>)

\* lines 93-126 (tab 1) and 128-153 (tab 2)
ChartOrMessage(tab, values) ==
    IF filtered_data.rows # <<>> /\ selected_customer # "All"
    THEN El(tab \o "_chart", values)
    ELSE IF selected_customer = "All" THEN El(tab \o "_select_customer", <<>>)
    ELSE El(tab \o "_no_data", <<>>)

Tab1 ==
    /\ pc = "tab1"
    /\ ui' = ui \cup {ChartOrMessage("tab1", <<SumOf(filtered_data.rows, "limit"),
                                               SumOf(filtered_data.rows, "amount")>>)}
    /\ pc' = "tab2"
    /\ UNCHANGED <<files, WT_KYC_2, merge_tables, unusual_wp_increase, customer_names,
                   selected_customer, filtered_data>>

Tab2 ==
    /\ pc = "tab2"
    /\ LET filtered_total == SumOf(filtered_data.rows, "amount")
           overall_total == SumOf(unusual_wp_increase.rows, "amount")
       IN  ui' = ui \cup {ChartOrMessage("tab2", <<filtered_total,
                                                   overall_total - filtered_total>>)}
    /\ pc' = "tab3"
    /\ UNCHANGED <<files, WT_KYC_2, merge_tables, unusual_wp_increase, customer_names,
                   selected_customer, filtered_data>>

\* lines 155-177: count metric or hint, describe() of the whole flagged set
\* (its 'count' row), sidebar text
Tab3 ==
    /\ pc = "tab3"
    /\ ui' = ui \cup
          {IF selected_customer # "All"
           THEN El("metric", <<Len(SelectSeq(unusual_wp_increase.rows,
                                             LAMBDA r : r.name_y = selected_customer))>>)
           ELSE El("select_customer_hint", <<>>),
           El("stats_table", <<Len(unusual_wp_increase.rows)>>),
           El("sidebar_info", <<>>)}
    /\ pc' = "done"
    /\ UNCHANGED <<files, WT_KYC_2, merge_tables, unusual_wp_increase, customer_names,
                   selected_customer, filtered_data>>

Next == LoadData \/ ConvertDates \/ SelectCustomer \/ FilterData \/ Tab1 \/ Tab2 \/ Tab3

Spec == Init /\ [][Next]_vars

-----------------------------------------------------------------------------
(* Properties *)

\* the transaction rows of the three files, batch 1 then 2 then 3
Transactions == files[1].rows \o files[2].rows \o files[3].rows
Flagged == ToSet(unusual_wp_increase.rows)
Rendered(kind) == \E e \in ui : e.el = kind
Charts == {"tab1_chart", "tab2_chart"}
\* nothing on the page but the message of the except branch
OnlyLoadError == \A e \in ui : e.el \in {"load_error:" \o x :
                    x \in {"FileNotFoundError", "ParserError", "KeyError", "TypeError",
                           "ValueError"}}

\* C1: a row of the joined table is in the flagged set exactly when its amount
\* is present and strictly greater than its limit; a row whose amount equals
\* its limit and a row with a null amount are not flagged.
C1_FilterCorrect ==
    pc = "fetched" =>
        /\ Flagged \subseteq ToSet(merge_tables.rows)
        /\ \A i \in 1..Len(merge_tables.rows) :
              LET r == merge_tables.rows[i]
              IN  /\ r \in Flagged <=> (r.amount # NaN /\ r.amount > r.limit)
                  /\ r.amount = r.limit => r \notin Flagged
                  /\ r.amount = NaN => r \notin Flagged

C1_Witness ==
    /\ pc = "fetched"
    /\ \E r \in ToSet(merge_tables.rows) : r.amount = r.limit /\ r \notin Flagged
    /\ \E r \in ToSet(merge_tables.rows) : r.amount = NaN /\ r \notin Flagged
    /\ \E r \in ToSet(merge_tables.rows) : r \in Flagged

\* C2: the limit an amount is compared against is the recorded limit plus
\* 5,000,000 when the recorded limit is exactly 500 and the recorded limit
\* itself otherwise: with a recorded limit of 500 a transaction is flagged
\* exactly when its amount exceeds 5,000,500.
C2_CorrectedLimitCompared ==
    pc = "fetched" =>
        \A j \in 1..Len(files[4].rows) : \A i \in 1..Len(merge_tables.rows) :
            LET recorded == files[4].rows[j].limit
                r == merge_tables.rows[i]
                effective == IF recorded = 500 THEN recorded + 5000000 ELSE recorded
            IN  r.cid = files[4].rows[j].cid =>
                    /\ r.limit = effective
                    /\ r \in Flagged <=> (r.amount # NaN /\ r.amount > effective)
                    /\ recorded = 500 => (r \in Flagged <=> r.amount > 5000500)

C2_Witness ==
    /\ pc = "fetched"
    /\ \E j \in 1..Len(files[4].rows) :
          /\ files[4].rows[j].limit = 500
          /\ \E r \in Flagged : r.cid = files[4].rows[j].cid /\ r.amount = 6000000
          /\ \E r \in ToSet(merge_tables.rows) \ Flagged :
                r.cid = files[4].rows[j].cid /\ r.amount = 5000000

\* C3: the correction is idempotent: applied to the corrected limit column it
\* changes nothing, the corrected value of 500 (5,000,500) not being 500.
C3_CorrectionIdempotent ==
    pc = "fetched" =>
        \A j \in 1..Len(WT_KYC_2.rows) :
            /\ WT_KYC_2.rows[j].limit # 500
            /\ CorrectLimit(WT_KYC_2.rows[j].limit) = WT_KYC_2.rows[j].limit

C3_Witness ==
    /\ pc = "fetched"
    /\ \E j \in 1..Len(WT_KYC_2.rows) :
          files[4].rows[j].limit = 500 /\ WT_KYC_2.rows[j].limit = 5000500

\* C4: in the join every limit record appears; one with N >= 1 transactions of
\* its customer identifier gives exactly N rows, each with its limit and name
\* and one transaction's fields; one with no transaction gives exactly one row
\* with null transaction fields; a transaction matching no limit record gives
\* no row.
C4_JoinCardinality ==
    pc = "fetched" =>
        /\ \A j \in 1..Len(WT_KYC_2.rows) :
              LET l == WT_KYC_2.rows[j]
                  T == SelectSeq(Transactions, LAMBDA t : t.cid = l.cid)
                  M == SelectSeq(merge_tables.rows, LAMBDA r : r.cid = l.cid)
              IN  /\ Len(M) >= 1
                  /\ \A i \in 1..Len(M) : M[i].limit = l.limit /\ M[i].name_x = l.name
                  /\ T # <<>> =>
                        /\ Len(M) = Len(T)
                        /\ \A i \in 1..Len(T) :
                              /\ M[i].amount = T[i].amount
                              /\ M[i].date = T[i].date
                              /\ M[i].name_y = T[i].name
                  /\ T = <<>> =>
                        /\ Len(M) = 1
                        /\ M[1].amount = NaN /\ M[1].date = NA /\ M[1].name_y = NA
        /\ \A i \in 1..Len(merge_tables.rows) :
              \E j \in 1..Len(WT_KYC_2.rows) :
                  WT_KYC_2.rows[j].cid = merge_tables.rows[i].cid

C4_Witness ==
    /\ pc = "fetched"
    /\ \E j, k \in 1..Len(WT_KYC_2.rows) :
          /\ Len(SelectSeq(Transactions, LAMBDA t : t.cid = WT_KYC_2.rows[j].cid)) = 2
          /\ Len(SelectSeq(merge_tables.rows, LAMBDA r : r.cid = WT_KYC_2.rows[j].cid)) = 2
          /\ Len(SelectSeq(Transactions, LAMBDA t : t.cid = WT_KYC_2.rows[k].cid)) = 0
          /\ Len(SelectSeq(merge_tables.rows, LAMBDA r : r.cid = WT_KYC_2.rows[k].cid)) = 1

\* the flagged rows of one transaction batch joined alone to the corrected limits
FlaggedOfBatch(f) == FilterExceeding(merge(WT_KYC_2, read_csv(files[f], "amount").df).df)

\* C5: concatenating the three batches and then joining and filtering gives the
\* same flagged set, as an unordered set, as joining and filtering each batch
\* alone against the same limits and taking the union of the three results.
C5_ConcatThenJoinIsUnion ==
    (pc = "fetched" /\ \A f \in 1..3 : FlaggedOfBatch(f).exc = "") =>
        Flagged = UNION {ToSet(FlaggedOfBatch(f).df.rows) : f \in 1..3}

C5_Witness ==
    /\ pc = "fetched"
    /\ \A f \in 1..3 : FlaggedOfBatch(f).exc = ""
    /\ FlaggedOfBatch(1).df.rows # <<>>
    /\ FlaggedOfBatch(3).df.rows # <<>>
    /\ FlaggedOfBatch(1).df.rows # FlaggedOfBatch(3).df.rows

RequiredCols(f) == IF f = 4 THEN KycCols ELSE {ColId, ColDate, ColAmount}

\* a file is missing, malformed or lacks a required column
FileDefective ==
    \E f \in 1..4 : files[f].status # "ok" \/ ~(RequiredCols(f) \subseteq files[f].cols)

\* a date that does not parse, or a non-numeric amount or limit
BadCell ==
    \/ \E f \in 1..3 : \E i \in 1..Len(files[f].rows) :
          files[f].rows[i].date = BadDate \/ files[f].rows[i].amount = NonNumeric
    \/ \E j \in 1..Len(files[4].rows) : files[4].rows[j].limit = NonNumeric

\* the run is in the try block or ended in its except branch, and the page
\* shows nothing but the error message
HandledOrLoading == pc \in {"start", "fetched", "stopped"} /\ OnlyLoadError

AfterSelect == pc \in {"selected", "tab1", "tab2", "tab3", "done"}

\* C6: when an input file is missing, malformed or lacks a required column the
\* run ends in the handled-error state: error message shown, no part of the
\* dashboard rendered, no uncaught exception.
C6_FileErrorsHandled == FileDefective => HandledOrLoading

\* C7: when any transaction date does not parse or any amount or limit is
\* non-numeric, in any record of the input, the run ends in the handled-error
\* state and no dashboard is rendered.
C7_TypeErrorsHandled == BadCell => HandledOrLoading

\* C8: with 'All' selected neither chart is rendered, each chart tab shows the
\* 'select a specific customer' message and the statistics table over the full
\* flagged set is displayed; a chart is rendered only for a specific customer
\* whose subset is non-empty.
C8_AllSuppressesCharts ==
    /\ selected_customer = "All" =>
          /\ \A c \in Charts : ~Rendered(c)
          /\ pc \in {"tab2", "tab3", "done"} => Rendered("tab1_select_customer")
          /\ pc \in {"tab3", "done"} => Rendered("tab2_select_customer")
          /\ pc = "done" => El("stats_table", <<Len(unusual_wp_increase.rows)>>) \in ui
    /\ \A c \in Charts :
          Rendered(c) =>
              /\ selected_customer # "All"
              /\ \E r \in Flagged : r.name_y = selected_customer

C8_Witness ==
    /\ pc = "done"
    /\ selected_customer = "All"
    /\ Flagged # {}
    /\ Rendered("tab1_select_customer") /\ Rendered("tab2_select_customer")
    /\ Rendered("stats_table")

\* C9: well-formed inputs whose flagged set is empty do not end in an error:
\* loading succeeds, the selectbox offers only 'All', no chart is drawn and the
\* finished page shows the neutral messages.
C9_EmptyResultNotAnError ==
    (~FileDefective /\ ~BadCell /\ pc \notin {"start", "fetched"}
        /\ unusual_wp_increase.rows = <<>>) =>
        /\ pc \notin {"stopped", "crashed"}
        /\ AfterSelect => customer_names = {"All"} /\ \A c \in Charts : ~Rendered(c)
        /\ pc = "done" =>
              /\ Rendered("tab1_select_customer") /\ Rendered("tab2_select_customer")
              /\ Rendered("stats_table")

\* C10: after a successful load the selectbox offers exactly 'All' and the
\* distinct display names, as the limit records carry them, of the customers in
\* the flagged rows, for any inputs with the required minimum columns.
C10_OptionsAreLimitRecordNames ==
    ~FileDefective =>
        /\ pc # "crashed"
        /\ AfterSelect => customer_names = {"All"} \cup {r.name_x : r \in Flagged}

====
